---- MODULE Spec2Model ----
(***************************************************************************)
(* Model of the AI-inspection editor extension: the interval type Range,   *)
(* the range-indexed tree RangeBinTree built on an ordered map (TreeMap),  *)
(* the syntax adapter with the enclosing-block lookup, and the analysis    *)
(* cycle that keeps a per-document diagnostics tree.                       *)
(*                                                                         *)
(* Six specifications share the operators below:                           *)
(*   SpecRange  - the predicates of Range on pairs of intervals            *)
(*   SpecTree   - one RangeBinTree node driven through its public methods  *)
(*   SpecNode   - addChild and addChildNode on one node                    *)
(*   SpecSyntax - createRangeBTreeNode and findEnclosingBlock              *)
(*   SpecExt    - the extension's event handlers for one document          *)
(*   SpecStale  - edits and the response while one request is outstanding  *)
(***************************************************************************)
EXTENDS Integers, Sequences, FiniteSets, TLC

VARIABLES
    children,   \* SpecTree: RangeBinTree._children of the node under test
    op,         \* SpecTree: the last method called on the node, with its arguments;
                \* SpecStale: the answer the service gives to the outstanding request
    found,      \* SpecTree: the array returned by the last find
    before,     \* SpecTree: _children as it was when the last method was called
    prev,       \* SpecTree: the method called before the last one, when it had the same arguments;
                \* SpecExt: whether the last response found the text edited since its request ("stale")
    syntaxTree, \* SpecSyntax: the parser's tree (docState.tree), a sequence of nodes, root first
    rangeTree,  \* SpecSyntax: docState.rangeTree, NullTree before it is built
    enclosing,  \* SpecSyntax: the last findEnclosingBlock call and what it returned
    docText,    \* SpecExt: the text of the document, a sequence of lines
    documentAnalysisStates, \* SpecExt: the document's DocumentAnalysis entry, or NullAnalysis
    diagnosticsTree,        \* SpecExt: the document's diagnostics tree, or NullTree
    published,  \* SpecExt: the diagnostics set for the document in golangDiagnosticCollection
    inflight,   \* SpecExt: the ollama.chat requests that have not settled yet
    model,      \* SpecExt: whether the setting aiInspection.model holds a model name
    pending,    \* SpecExt: the encode promises that have not resolved yet
    last        \* SpecExt: the handler that ran last and how it ended

treeVars == <<children, op, found, before, prev>>

syntaxVars == <<syntaxTree, rangeTree, enclosing>>

extVars == <<docText, documentAnalysisStates, diagnosticsTree, published, inflight,
             model, pending, last>>

vars == <<children, op, found, before, prev, syntaxTree, rangeTree, enclosing,
          docText, documentAnalysisStates, diagnosticsTree, published, inflight,
          model, pending, last>>

(***************************************************************************)
(* Bounds of the model.                                                    *)
(***************************************************************************)
MaxPoint == 2       \* interval end points of SpecTree range over 0..MaxPoint
MaxChildren == 3    \* most children the node of SpecTree holds
MaxOffset == 3      \* byte offsets of SpecSyntax range over 0..MaxOffset
MaxNodes == 4       \* most nodes of a syntax tree of SpecSyntax
MaxLine == 2        \* line numbers reported by the service range over 0..MaxLine
MaxBatch == 2       \* most findings in one response of the service
MaxPending == 1     \* most encode promises pending at a time
MaxCoord == 1       \* lines and characters of the positions of SpecRange range over 0..MaxCoord
MaxInflight == 2    \* positions of the list of outstanding requests a response may settle

(***************************************************************************)
(* Range<T>: an interval with the comparator it was constructed with.      *)
(***************************************************************************)
compareNumbers(a, b) == a - b

positionComparator(p1, p2) ==
    IF p1.line # p2.line
        THEN p1.line - p2.line
        ELSE p1.character - p2.character

\* Range._comparator applied: the record carries the name of its comparator.
Comparator(r, a, b) ==
    IF r.comparator = "compareNumbers"
        THEN compareNumbers(a, b)
        ELSE positionComparator(a, b)

NumberRange(s, e) == [start |-> s, end |-> e, comparator |-> "compareNumbers"]

VSCodeRange(s, e) == [start |-> s, end |-> e, comparator |-> "positionComparator"]

Position(l, c) == [line |-> l, character |-> c]

\* contains that leaves out the end points
containsOpen(r, n) == Comparator(r, r.start, n) < 0 /\ Comparator(r, n, r.end) < 0

contains(r, n) == Comparator(r, r.start, n) <= 0 /\ Comparator(r, n, r.end) <= 0

\* intersects that tests the start of the other interval only
intersectsStartOnly(r, range) == contains(r, range.start)

intersects(r, range) == contains(r, range.start) \/ contains(r, range.end)

inside(r, range) ==
    Comparator(r, r.start, range.start) >= 0 /\ Comparator(r, r.end, range.end) <= 0

compare(r, other) ==
    LET comp1 == Comparator(r, r.start, other.start)
    IN  IF comp1 # 0 THEN comp1 ELSE Comparator(r, r.end, other.end)

(***************************************************************************)
(* TreeMap<K, V> of ts-treemap: a map whose keys are kept in the order of  *)
(* their compare method.  A map is a function on its key set; the split    *)
(* operations build a new map, so a later delete on the original does not  *)
(* change what an iterator over the split visits.                          *)
(***************************************************************************)
EmptyMap == <<>>

\* a RangeBinTree reference that is null
NullTree == [null |-> TRUE]

\* no entry in documentAnalysisStates
NullAnalysis == [null |-> TRUE]

\* no syntax node (undefined); the nodes of a tree are numbered from 1
Undefined == 0

MapKeys(m) == DOMAIN m

MapSet(m, k, v) == [x \in (DOMAIN m) \cup {k} |-> IF x = k THEN v ELSE m[x]]

MapDelete(m, k) == [x \in (DOMAIN m) \ {k} |-> m[x]]

MinKey(S) == CHOOSE k \in S : \A o \in S : compare(k, o) <= 0

RECURSIVE SortedSeq(_)
SortedSeq(S) ==
    IF S = {} THEN <<>>
    ELSE LET k == MinKey(S) IN <<k>> \o SortedSeq(S \ {k})

\* keys() / entries() / forEach order
SortedKeys(m) == SortedSeq(DOMAIN m)

Reverse(s) == [i \in 1..Len(s) |-> s[Len(s) + 1 - i]]

\* splitLower(key): the entries whose key is lower than or equal to key
splitLower(m, key) == [x \in {k \in DOMAIN m : compare(k, key) <= 0} |-> m[x]]

\* splitHigher(key, false): the entries whose key is strictly higher than key
splitHigher(m, key) == [x \in {k \in DOMAIN m : compare(k, key) > 0} |-> m[x]]

\* reverseKeys without the reversal: the keys in ascending order
reverseKeysAscending(m) == SortedKeys(m)

reverseKeys(m) == Reverse(SortedKeys(m))

(***************************************************************************)
(* forEachIter: the items the loop applies applyFn to, which are the items *)
(* before the first one breakFn accepts.                                   *)
(***************************************************************************)
\* breakFn that forgets the inside test
breakFnIntersectsOnly(r, range) == ~intersects(r, range)

breakFn(r, range) == ~intersects(r, range) /\ ~inside(r, range)

\* forEachIter with the default breakFn, which never breaks
forEachIterNoBreak(it, range) == it

RECURSIVE forEachIter(_, _)
forEachIter(it, range) ==
    IF it = <<>> \/ breakFn(Head(it), range)
        THEN <<>>
        ELSE <<Head(it)>> \o forEachIter(Tail(it), range)

(***************************************************************************)
(* RangeBinTree<T, RType>                                                  *)
(***************************************************************************)
RangeBinTree(range, node) == [range |-> range, node |-> node, children |-> EmptyMap]

\* addChildNode that keeps the entry already stored under an equal key
addChildNodeKeepExisting(ch, child) ==
    IF child.range \in MapKeys(ch) THEN ch ELSE MapSet(ch, child.range, child)

addChildNode(ch, child) == MapSet(ch, child.range, child)

addChild(ch, range, value) == addChildNode(ch, RangeBinTree(range, value))

\* remove that deletes nothing
removeNothing(ch, range) == ch

remove(ch, range) == MapDelete(ch, range)

RECURSIVE removeAll(_, _)
removeAll(ch, ranges) ==
    IF ranges = <<>> THEN ch ELSE removeAll(remove(ch, Head(ranges)), Tail(ranges))

\* forEachChildren: the values of the children in key order
forEachChildren(ch) == [i \in 1..Len(SortedKeys(ch)) |-> ch[SortedKeys(ch)[i]].node]

\* processIntersecting with processFn one of "push" (find), "remove"
\* (removeIntersecting) or "undefined".  The lower scan runs to its end
\* before the higher split is taken from the map as it then is.
processIntersecting(ch, range, processFn) ==
    IF processFn = "undefined"
        THEN [children |-> ch, nodes |-> <<>>]
        ELSE
            LET lower   == forEachIter(reverseKeys(splitLower(ch, range)), range)
                lowOut  == [i \in 1..Len(lower) |-> ch[lower[i]]]
                ch1     == IF processFn = "remove" THEN removeAll(ch, lower) ELSE ch
                higher  == forEachIter(SortedKeys(splitHigher(ch1, range)), range)
                highOut == [i \in 1..Len(higher) |-> ch1[higher[i]]]
                ch2     == IF processFn = "remove" THEN removeAll(ch1, higher) ELSE ch1
            IN  [children |-> ch2,
                 nodes    |-> IF processFn = "push" THEN lowOut \o highOut ELSE <<>>]

\* removeIntersecting that removes every child
removeIntersectingAll(ch, range) == EmptyMap

removeIntersecting(ch, range) == processIntersecting(ch, range, "remove").children

\* replaceIntersecting with its two calls in the other order
replaceIntersectingAddFirst(ch, range, value) ==
    removeIntersecting(addChild(ch, range, value), range)

replaceIntersecting(ch, range, value) ==
    addChild(removeIntersecting(ch, range), range, value)

find(ch, range) == processIntersecting(ch, range, "push").nodes

(***************************************************************************)
(* SpecTree: a node whose public methods are called with arbitrary         *)
(* arguments.  Intervals with start > end are included: the type does not  *)
(* reject them.                                                            *)
(***************************************************************************)
Points == 0..MaxPoint

Ranges == {NumberRange(s, e) : s \in Points, e \in Points}

Values == {"v1"}

NoOp == [name |-> "new"]

\* a node on which no method has been called
NewNode ==
    /\ children = EmptyMap
    /\ op = NoOp
    /\ found = <<>>
    /\ before = EmptyMap
    /\ prev = "none"

\* no document state (documentStates has no entry)
NoDocumentState ==
    /\ syntaxTree = <<>>
    /\ rangeTree = NullTree
    /\ enclosing = [called |-> FALSE]

\* the module state of the extension after activate
Activated ==
    /\ documentAnalysisStates = NullAnalysis
    /\ diagnosticsTree = NullTree
    /\ published = <<>>
    /\ inflight = <<>>
    /\ model = TRUE
    /\ pending = <<>>
    /\ last = [handler |-> "activate", outcome |-> "none"]

InitTree == NewNode /\ NoDocumentState /\ Activated /\ docText = <<>>

\* History of the calls: the map before the call, and the name of the
\* preceding call when it was made with the same arguments.
Called(call) ==
    /\ op' = call
    /\ before' = children
    /\ prev' = IF [call EXCEPT !.name = op.name] = op THEN op.name ELSE "other"

AddChild(range, value) ==
    /\ Cardinality(MapKeys(addChild(children, range, value))) <= MaxChildren
    /\ children' = addChild(children, range, value)
    /\ Called([name |-> "addChild", range |-> range, value |-> value])
    /\ found' = <<>>
    /\ UNCHANGED <<syntaxVars, extVars>>

Remove(range) ==
    /\ children' = remove(children, range)
    /\ Called([name |-> "remove", range |-> range])
    /\ found' = <<>>
    /\ UNCHANGED <<syntaxVars, extVars>>

RemoveIntersecting(range) ==
    /\ children' = removeIntersecting(children, range)
    /\ Called([name |-> "removeIntersecting", range |-> range])
    /\ found' = <<>>
    /\ UNCHANGED <<syntaxVars, extVars>>

ReplaceIntersecting(range, value) ==
    /\ Cardinality(MapKeys(replaceIntersecting(children, range, value))) <= MaxChildren
    /\ children' = replaceIntersecting(children, range, value)
    /\ Called([name |-> "replaceIntersecting", range |-> range, value |-> value])
    /\ found' = <<>>
    /\ UNCHANGED <<syntaxVars, extVars>>

Find(range) ==
    /\ found' = find(children, range)
    /\ Called([name |-> "find", range |-> range])
    /\ UNCHANGED children
    /\ UNCHANGED <<syntaxVars, extVars>>

NextTree ==
    \/ \E r \in Ranges, v \in Values : AddChild(r, v)
    \/ \E r \in Ranges : Remove(r)
    \/ \E r \in Ranges : RemoveIntersecting(r)
    \/ \E r \in Ranges, v \in Values : ReplaceIntersecting(r, v)
    \/ \E r \in Ranges : Find(r)

SpecTree == InitTree /\ [][NextTree]_vars

(***************************************************************************)
(* SpecRange: the predicates of Range applied to pairs of intervals that   *)
(* share a comparator, over numbers and over positions.  The predicates    *)
(* keep no state, so a behaviour applies one of them once.                 *)
(***************************************************************************)
Positions == {Position(l, c) : l \in 0..MaxCoord, c \in 0..MaxCoord}

PositionRanges == {VSCodeRange(s, e) : s \in Positions, e \in Positions}

InitRange == NewNode /\ NoDocumentState /\ Activated /\ docText = <<>>

\* r.contains(n) for an end point n of another interval
Contains(r, n) ==
    /\ op = NoOp
    /\ op' = [name |-> "contains", point |-> n, range |-> r]
    /\ found' = <<contains(r, n)>>
    /\ UNCHANGED <<children, before, prev, syntaxVars, extVars>>

\* a.intersects(b) and b.intersects(a)
Intersects(a, b) ==
    /\ op = NoOp
    /\ op' = [name |-> "intersects", other |-> b, range |-> a]
    /\ found' = <<intersects(a, b), intersects(b, a)>>
    /\ UNCHANGED <<children, before, prev, syntaxVars, extVars>>

\* a.inside(b)
Inside(a, b) ==
    /\ op = NoOp
    /\ op' = [name |-> "inside", other |-> b, range |-> a]
    /\ found' = <<inside(a, b)>>
    /\ UNCHANGED <<children, before, prev, syntaxVars, extVars>>

\* the test processIntersecting makes of a child key c for the query q:
\* whether the scan goes on, and the two predicates it is made of
Match(c, q) ==
    /\ op = NoOp
    /\ op' = [name |-> "match", other |-> q, range |-> c]
    /\ found' = <<~breakFn(c, q), intersects(c, q), inside(c, q)>>
    /\ UNCHANGED <<children, before, prev, syntaxVars, extVars>>

\* the intervals of a pair share their comparator
NextRange ==
    \/ \E a \in Ranges, b \in Ranges : Contains(a, b.start)
    \/ \E a \in PositionRanges, b \in PositionRanges : Contains(a, b.start)
    \/ \E a \in Ranges, b \in Ranges : Intersects(a, b)
    \/ \E a \in PositionRanges, b \in PositionRanges : Intersects(a, b)
    \/ \E a \in Ranges, b \in Ranges : Inside(a, b)
    \/ \E a \in PositionRanges, b \in PositionRanges : Inside(a, b)
    \/ \E a \in Ranges, b \in Ranges : Match(a, b)
    \/ \E a \in PositionRanges, b \in PositionRanges : Match(a, b)

SpecRange == InitRange /\ [][NextRange]_vars

(***************************************************************************)
(* SpecNode: a node to which children are added, with a value by addChild  *)
(* or as a node that has a child of its own by addChildNode.               *)
(***************************************************************************)
NodeValues == {"v1", "v2"}

\* a node with one child of its own
NodeWithChild(range, value) ==
    [RangeBinTree(range, value) EXCEPT !.children = addChild(EmptyMap, range, value)]

InitNode == NewNode /\ NoDocumentState /\ Activated /\ docText = <<>>

AddChildValue(range, value) ==
    /\ Cardinality(MapKeys(addChild(children, range, value))) <= MaxChildren
    /\ children' = addChild(children, range, value)
    /\ op' = [name |-> "addChild", range |-> range, value |-> value]
    /\ before' = children
    /\ UNCHANGED <<found, prev, syntaxVars, extVars>>

AddChildNode(range) ==
    /\ Cardinality(MapKeys(addChildNode(children, NodeWithChild(range, "v2")))) <= MaxChildren
    /\ children' = addChildNode(children, NodeWithChild(range, "v2"))
    /\ op' = [name |-> "addChildNode", range |-> range]
    /\ before' = children
    /\ UNCHANGED <<found, prev, syntaxVars, extVars>>

\* the intervals given are well-formed
NodeRanges == {r \in Ranges : r.start <= r.end}

NextNode ==
    \/ \E r \in NodeRanges, v \in NodeValues : AddChildValue(r, v)
    \/ \E r \in NodeRanges : AddChildNode(r)

SpecNode == InitNode /\ [][NextNode]_vars

(***************************************************************************)
(* Syntax trees of the parser.  A tree is the sequence of its nodes in     *)
(* breadth-first order; a node carries its type, its byte span             *)
(* [startIndex, endIndex), its parent and its children in source order.    *)
(* Children lie within their parent and follow one another without         *)
(* overlapping as half-open spans; they may touch and may be empty.        *)
(***************************************************************************)
NodeTypes == {"block", "other"}

SyntaxNode(type, s, e, parent) ==
    [type |-> type, startIndex |-> s, endIndex |-> e, parent |-> parent, children |-> <<>>]

RootOnly == <<SyntaxNode("source_file", 0, MaxOffset, 0)>>

\* the offset from which a further child of node p may start
NextStart(t, p) ==
    IF t[p].children = <<>>
        THEN t[p].startIndex
        ELSE t[t[p].children[Len(t[p].children)]].endIndex

\* the trees that have one node more than t
Extend(t) ==
    { [i \in 1..(Len(t) + 1) |->
          IF i = Len(t) + 1 THEN SyntaxNode(ty, s, e, p)
          ELSE IF i = p THEN [t[p] EXCEPT !.children = Append(@, Len(t) + 1)]
          ELSE t[i]] :
        <<p, ty, s, e>> \in
            { x \in (1..Len(t)) \X NodeTypes \X (0..MaxOffset) \X (0..MaxOffset) :
                /\ x[1] >= t[Len(t)].parent
                /\ NextStart(t, x[1]) <= x[3]
                /\ x[3] <= x[4]
                /\ x[4] <= t[x[1]].endIndex } }

RECURSIVE TreesOfSize(_)
TreesOfSize(n) ==
    IF n = 1 THEN {RootOnly}
    ELSE UNION {Extend(t) : t \in TreesOfSize(n - 1)}

\* the trees of at most maxNodes nodes
SyntaxTrees(maxNodes) == UNION {TreesOfSize(n) : n \in 1..maxNodes}

(***************************************************************************)
(* The syntax adapter and the enclosing-block lookup.  The value of a      *)
(* range-tree node is the index of the syntax node it was built from.      *)
(***************************************************************************)
RECURSIVE createRangeBTreeNode(_, _)
RECURSIVE addChildNodes(_, _, _, _)

\* n.children.map(createRangeBTreeNode).forEach(t => node.addChildNode(t)),
\* from the i-th child on
addChildNodes(t, kids, i, ch) ==
    IF i > Len(kids) THEN ch
    ELSE addChildNodes(t, kids, i + 1, addChildNode(ch, createRangeBTreeNode(t, kids[i])))

createRangeBTreeNode(t, n) ==
    [range    |-> NumberRange(t[n].startIndex, t[n].endIndex),
     node     |-> n,
     children |-> addChildNodes(t, t[n].children, 1, EmptyMap)]

childCount(t, n) == Len(t[n].children)

\* the loop, were it to return at the first block it reaches
RECURSIVE findEnclosingLoopStopAtBlock(_, _, _, _, _)
findEnclosingLoopStopAtBlock(t, enclosings, range, grabParentBlock, result) ==
    IF enclosings = <<>> THEN result
    ELSE
        LET treeNode == enclosings[1] IN
        IF childCount(t, treeNode.node) = 0 \/ ~inside(range, treeNode.range)
            THEN result
            ELSE IF t[treeNode.node].type = "block"
                THEN (IF grabParentBlock THEN t[treeNode.node].parent ELSE treeNode.node)
                ELSE findEnclosingLoopStopAtBlock(t, find(treeNode.children, range), range,
                                                  grabParentBlock, result)

\* the while loop of findEnclosingBlock, entered with the current
\* enclosings and result
RECURSIVE findEnclosingLoop(_, _, _, _, _)
findEnclosingLoop(t, enclosings, range, grabParentBlock, result) ==
    IF enclosings = <<>> THEN result
    ELSE
        LET treeNode == enclosings[1] IN
        IF childCount(t, treeNode.node) = 0 \/ ~inside(range, treeNode.range)
            THEN result
            ELSE
                LET taken == IF grabParentBlock THEN t[treeNode.node].parent ELSE treeNode.node
                    next  == IF t[treeNode.node].type = "block"
                                 THEN taken
                                 ELSE result
                IN  findEnclosingLoop(t, find(treeNode.children, range), range,
                                      grabParentBlock, next)

findEnclosingBlock(t, tree, range, grabParentBlock) ==
    findEnclosingLoop(t, find(tree.children, range), range, grabParentBlock, Undefined)

(***************************************************************************)
(* SpecSyntax: a parsed document, for which the range tree is built and    *)
(* then queried for the block enclosing a well-formed byte range.          *)
(***************************************************************************)
ByteRanges == {NumberRange(s, e) : s \in 0..MaxOffset, e \in 0..MaxOffset}

ChangeRanges == {r \in ByteRanges : r.start <= r.end}

InitSyntax ==
    /\ syntaxTree \in SyntaxTrees(MaxNodes)
    /\ rangeTree = NullTree
    /\ enclosing = [called |-> FALSE]
    /\ NewNode
    /\ Activated
    /\ docText = <<>>

CreateRangeTree ==
    /\ rangeTree = NullTree
    /\ rangeTree' = createRangeBTreeNode(syntaxTree, 1)
    /\ UNCHANGED <<syntaxTree, enclosing>>
    /\ UNCHANGED <<treeVars, extVars>>

\* one lookup per rebuild, as in the change handler
FindEnclosingBlock(range, grabParentBlock) ==
    /\ rangeTree # NullTree
    /\ ~enclosing.called
    /\ enclosing' = [called |-> TRUE, range |-> range, grabParentBlock |-> grabParentBlock,
                     result |-> findEnclosingBlock(syntaxTree, rangeTree, range, grabParentBlock)]
    /\ UNCHANGED <<syntaxTree, rangeTree>>
    /\ UNCHANGED <<treeVars, extVars>>

NextSyntax ==
    \/ CreateRangeTree
    \/ \E r \in ChangeRanges, g \in BOOLEAN : FindEnclosingBlock(r, g)

SpecSyntax == InitSyntax /\ [][NextSyntax]_vars

(***************************************************************************)
(* The extension.  One document is open; its text is a sequence of lines,  *)
(* a line a sequence of characters.                                        *)
(***************************************************************************)
TextA == << <<"a", "b">>, <<"a">> >>

TextB == << <<"b", "a">>, <<"a">> >>

Texts == {TextA, TextB}

\* Number.MAX_SAFE_INTEGER, cut to the largest integer of the checker; it is
\* only stored, in the range of the stub root
MAX_SAFE_INTEGER == 2147483647

\* An AnalysisReport of the service: location.line, location.snippet and
\* description.  issue is never read.
Snippets == {<<"a">>, <<"a", "b">>}

Descriptions == {"d1"}

Reports == [line : 0..MaxLine, snippet : Snippets, description : Descriptions]

RECURSIVE SeqsUpTo(_, _)
SeqsUpTo(S, n) ==
    IF n = 0 THEN {<<>>}
    ELSE LET shorter == SeqsUpTo(S, n - 1)
         IN  shorter \cup {Append(b, r) : b \in {x \in shorter : Len(x) = n - 1}, r \in S}

Batches == SeqsUpTo(Reports, MaxBatch)

\* The syntax trees the parser returns for the document: one with the two
\* top-level functions f and g, each a header followed by a block, and one
\* without any declaration.
NamedNode(type, s, e, parent, kids, row, name) ==
    [type |-> type, startIndex |-> s, endIndex |-> e, parent |-> parent,
     children |-> kids, startRow |-> row, name |-> name]

TreeF ==
    << NamedNode("source_file", 0, 4, 0, <<2, 3>>, 0, ""),
       NamedNode("function_declaration", 0, 2, 1, <<4, 5>>, 0, "f"),
       NamedNode("function_declaration", 2, 4, 1, <<6, 7>>, 1, "g"),
       NamedNode("other", 0, 1, 2, <<>>, 0, ""),
       NamedNode("block", 1, 2, 2, <<8>>, 0, ""),
       NamedNode("other", 2, 3, 3, <<>>, 1, ""),
       NamedNode("block", 3, 4, 3, <<9>>, 1, ""),
       NamedNode("other", 1, 2, 5, <<>>, 0, ""),
       NamedNode("other", 3, 4, 7, <<>>, 1, "") >>

TreeE == << NamedNode("source_file", 0, 4, 0, <<>>, 0, "") >>

DocTrees == {TreeF, TreeE}

FunctionNames == {"f", "g", "h"}

EditRanges == {NumberRange(s, e) : s \in 0..4, e \in 0..4}

\* changeRange of the change handler: startIndex <= newEndIndex
EditChangeRanges == {r \in EditRanges : r.start <= r.end}

\* findFunctionsByNames without the test of the name set
findFunctionsAnyName(t, tree, names) ==
    SelectSeq(forEachChildren(tree.children),
              LAMBDA n : t[n].type = "function_declaration" /\ t[n].name # "")

\* findFunctionsByNames: the top-level function declarations, in key order,
\* whose name is in the set
findFunctionsByNames(t, tree, names) ==
    SelectSeq(forEachChildren(tree.children),
              LAMBDA n : t[n].type = "function_declaration"
                            /\ t[n].name # "" /\ t[n].name \in names)

\* performCodeCheck: the source text sent, as the requests with the number
\* given to their first line by addLineComments
performCodeCheck(requests) ==
    [i \in 1..Len(requests) |->
        [startLineNumber |-> requests[i].startLine + 1, text |-> requests[i].text]]

\* doc.getText(new vscode.Range(line, 0, line, MAX)): the line, or nothing
\* when the document has no such line (the range is clamped to the text)
getLineText(text, line) == IF line < Len(text) THEN text[line + 1] ELSE <<>>

\* String.indexOf: the first offset at which snippet occurs, or -1
indexOf(lineText, snippet) ==
    LET at == {o \in 0..(Len(lineText) - Len(snippet)) :
                  \A j \in 1..Len(snippet) : lineText[o + j] = snippet[j]}
    IN  IF at = {} THEN -1 ELSE CHOOSE o \in at : \A x \in at : o <= x

\* new vscode.Position / vscode.Range reject a negative line
ThrowsOnLine(result) == result.line - 1 < 0

NoRange == [undefined |-> TRUE]

\* the callback of results.map: the range of a finding, or undefined
resolveRange(text, result) ==
    LET line     == result.line - 1
        lineText == getLineText(text, line)
        offset   == indexOf(lineText, result.snippet)
    IN  IF offset < 0 THEN NoRange
        ELSE VSCodeRange(Position(line, offset),
                         Position(line, offset + Len(result.snippet)))

Diagnostic(range, message, severity) ==
    [range |-> <<range.start, range.end>>, message |-> message, severity |-> severity]

StubRange == VSCodeRange(Position(0, 0), Position(MAX_SAFE_INTEGER, MAX_SAFE_INTEGER))

StubTree == RangeBinTree(StubRange, Diagnostic(StubRange, "stub", "Error"))

\* ranges.forEach(r => r && tree.removeIntersecting(r)), from the i-th on
RECURSIVE removeRanges(_, _, _)
removeRanges(ch, ranges, i) ==
    IF i > Len(ranges) THEN ch
    ELSE removeRanges(IF ranges[i] = NoRange THEN ch ELSE removeIntersecting(ch, ranges[i]),
                      ranges, i + 1)

\* ranges.forEach((range, index) => ... tree.addChild(range, diag)), from
\* the i-th on
RECURSIVE addDiagnostics(_, _, _, _)
addDiagnostics(ch, ranges, results, i) ==
    IF i > Len(ranges) THEN ch
    ELSE addDiagnostics(
            IF ranges[i] = NoRange THEN ch
            ELSE addChild(ch, ranges[i],
                          Diagnostic(ranges[i], results[i].description, "Warning")),
            ranges, results, i + 1)

\* the results continuation, were it to publish the diagnostics of the
\* current response only
resultsProcessorCurrentOnly(tree, pub, text, results) ==
    LET tree0 == IF tree = NullTree THEN StubTree ELSE tree IN
    IF \E i \in 1..Len(results) : ThrowsOnLine(results[i])
        THEN [tree |-> tree0, published |-> pub, threw |-> TRUE]
        ELSE
            LET ranges == [i \in 1..Len(results) |-> resolveRange(text, results[i])]
                ch1    == removeRanges(tree0.children, ranges, 1)
                ch2    == addDiagnostics(ch1, ranges, results, 1)
            IN  [tree      |-> [tree0 EXCEPT !.children = ch2],
                 published |-> forEachChildren(addDiagnostics(EmptyMap, ranges, results, 1)),
                 threw     |-> FALSE]

\* The results continuation of checkCode.  It returns the diagnostics tree
\* and the published diagnostics it leaves, and whether it threw.
resultsProcessor(tree, pub, text, results) ==
    LET tree0 == IF tree = NullTree THEN StubTree ELSE tree IN
    IF \E i \in 1..Len(results) : ThrowsOnLine(results[i])
        THEN [tree |-> tree0, published |-> pub, threw |-> TRUE]
        ELSE
            LET ranges == [i \in 1..Len(results) |-> resolveRange(text, results[i])]
                ch1    == removeRanges(tree0.children, ranges, 1)
                ch2    == addDiagnostics(ch1, ranges, results, 1)
            IN  [tree      |-> [tree0 EXCEPT !.children = ch2],
                 published |-> forEachChildren(ch2),
                 threw     |-> FALSE]

\* The content of a chat response: whether it has a fence and which
\* ("json" for the fence followed by json, "plain" for the bare fence),
\* whether anything follows the fence, whether the fence is closed, and
\* whether what stands between the fences is JSON, then the array of reports
\* it denotes.  A chat call that fails has no content ("rejected").
Response(fence, more, closed, json, body) ==
    [fence |-> fence, more |-> more, closed |-> closed, json |-> json, body |-> body]

Fenced(body) == Response("json", TRUE, TRUE, TRUE, body)

Responses ==
    {Response("none", TRUE, FALSE, FALSE, <<>>),
     Response("plain", FALSE, FALSE, FALSE, <<>>),
     Response("json", TRUE, FALSE, TRUE, <<>>),
     Response("plain", TRUE, TRUE, FALSE, <<>>),
     Response("rejected", FALSE, FALSE, FALSE, <<>>)}
    \cup {Fenced(b) : b \in Batches}

\* The first then of inspectCode: "undefined" when there is no fence or
\* nothing but the fence, "parseError" when JSON.parse throws on what
\* follows the fence up to the closing one, else "array".  A rejected chat
\* call skips the then callbacks.
extractResults(response) ==
    IF response.fence = "rejected" THEN "rejected"
    ELSE IF response.fence = "none" \/ ~response.more THEN "undefined"
    ELSE IF ~response.closed \/ ~response.json THEN "parseError"
    ELSE "array"

\* finally(finalizer): the finalizer runs however the chain ended
finallyRunsOnSuccess(outcome) == outcome \in {"undefined", "applied"}

finallyRuns(outcome) == TRUE

(***************************************************************************)
(* The handlers                                                            *)
(***************************************************************************)
Ended(handler, outcome) == last' = [handler |-> handler, outcome |-> outcome]

\* inspectCode up to the chat call
inspectCodeAnyModel(handler, sourceCode) ==
    /\ inflight' = Append(inflight, [sourceCode |-> sourceCode, text |-> docText'])
    /\ Ended(handler, "sent")

inspectCode(handler, sourceCode) ==
    IF ~model
        THEN /\ inflight' = inflight
             /\ Ended(handler, "noModel")
        ELSE /\ inflight' = Append(inflight, [sourceCode |-> sourceCode, text |-> docText'])
             /\ Ended(handler, "sent")

\* checkCode without the done flag
checkCodeUngated(handler, sourceCode) ==
    /\ documentAnalysisStates' = [done |-> FALSE]
    /\ inspectCode(handler, sourceCode)

checkCode(handler, sourceCode) ==
    LET docAnalysisState ==
            IF documentAnalysisStates = NullAnalysis
                THEN [done |-> TRUE]
                ELSE documentAnalysisStates
    IN  IF docAnalysisState.done
            THEN /\ documentAnalysisStates' = [done |-> FALSE]
                 /\ inspectCode(handler, sourceCode)
            ELSE /\ documentAnalysisStates' = docAnalysisState
                 /\ inflight' = inflight
                 /\ Ended(handler, "busy")

\* the change handler, were it to drop the diagnostics of the document
ChangeTextDocumentClearing(text, tree, range) ==
    /\ docText' = text
    /\ IF rangeTree = NullTree
        THEN /\ Len(pending) < MaxPending
             /\ pending' = Append(pending, tree)
             /\ Ended("change", "encoding")
             /\ UNCHANGED <<syntaxTree, rangeTree, documentAnalysisStates, inflight>>
        ELSE /\ syntaxTree' = tree
             /\ rangeTree' = createRangeBTreeNode(tree, 1)
             /\ UNCHANGED pending
             /\ LET node == findEnclosingBlock(tree, rangeTree', range, TRUE)
                IN  IF node = Undefined
                        THEN /\ Ended("change", "noBlock")
                             /\ UNCHANGED <<documentAnalysisStates, inflight>>
                        ELSE checkCode("change",
                                 performCodeCheck(<<[startLine |-> tree[node].startRow,
                                                     text |-> [node |-> node]]>>))
    /\ diagnosticsTree' = NullTree
    /\ published' = <<>>
    /\ UNCHANGED <<model, enclosing, treeVars>>

\* onDidChangeTextDocument with a content change: the document now reads
\* text, the parser returns tree, and the change spans range
ChangeTextDocument(text, tree, range) ==
    /\ docText' = text
    /\ IF rangeTree = NullTree
        THEN /\ Len(pending) < MaxPending
             /\ pending' = Append(pending, tree)
             /\ Ended("change", "encoding")
             /\ UNCHANGED <<syntaxTree, rangeTree, documentAnalysisStates, inflight>>
        ELSE /\ syntaxTree' = tree
             /\ rangeTree' = createRangeBTreeNode(tree, 1)
             /\ UNCHANGED pending
             /\ LET node == findEnclosingBlock(tree, rangeTree', range, TRUE)
                IN  IF node = Undefined
                        THEN /\ Ended("change", "noBlock")
                             /\ UNCHANGED <<documentAnalysisStates, inflight>>
                        ELSE checkCode("change",
                                 performCodeCheck(<<[startLine |-> tree[node].startRow,
                                                     text |-> [node |-> node]]>>))
    /\ UNCHANGED <<diagnosticsTree, published, model, enclosing, treeVars>>

\* onDidChangeTextDocument without content changes
ChangeWithoutContent ==
    /\ Ended("change", "empty")
    /\ UNCHANGED <<docText, documentAnalysisStates, diagnosticsTree, published, inflight,
                   model, pending, syntaxVars, treeVars>>

\* the then of vscode.workspace.encode: the document state is registered
EncodeResolved(i) ==
    /\ i \in 1..Len(pending)
    /\ syntaxTree' = pending[i]
    /\ rangeTree' = createRangeBTreeNode(pending[i], 1)
    /\ pending' = SubSeq(pending, 1, i - 1) \o SubSeq(pending, i + 1, Len(pending))
    /\ Ended("encode", "registered")
    /\ UNCHANGED <<docText, documentAnalysisStates, diagnosticsTree, published, inflight,
                   model, enclosing, treeVars>>

\* the command aiInspection.runAnalysis with the function names given
RunAnalysis(names) ==
    /\ UNCHANGED <<docText, diagnosticsTree, published, model, pending, syntaxVars, treeVars>>
    /\ IF rangeTree = NullTree
        THEN /\ Ended("command", "noState")
             /\ UNCHANGED <<documentAnalysisStates, inflight>>
        ELSE IF names = {}
            THEN checkCode("command",
                     performCodeCheck(<<[startLine |-> 0, text |-> [document |-> TRUE]]>>))
            ELSE LET functions == findFunctionsByNames(syntaxTree, rangeTree, names)
                 IN  checkCode("command",
                         performCodeCheck([i \in 1..Len(functions) |->
                             [startLine |-> syntaxTree[functions[i]].startRow,
                              text |-> [node |-> functions[i]]]]))

\* the continuation, were it to resolve the findings against the text sent
ChatSettledOnSentText(i, response) ==
    /\ i \in 1..Len(inflight)
    /\ inflight' = SubSeq(inflight, 1, i - 1) \o SubSeq(inflight, i + 1, Len(inflight))
    /\ LET arg     == extractResults(response)
           applied == resultsProcessor(diagnosticsTree, published, inflight[i].text, response.body)
           outcome == IF arg # "array" THEN arg
                      ELSE IF applied.threw THEN "threw" ELSE "applied"
       IN  /\ IF arg = "array"
                THEN /\ diagnosticsTree' = applied.tree
                     /\ published' = applied.published
                ELSE UNCHANGED <<diagnosticsTree, published>>
           /\ IF finallyRuns(outcome)
                THEN documentAnalysisStates' = [done |-> TRUE]
                ELSE UNCHANGED documentAnalysisStates
           /\ Ended("response", outcome)
    /\ prev' = IF inflight[i].text = docText THEN "current" ELSE "stale"
    /\ UNCHANGED <<docText, model, pending, syntaxVars, children, op, found, before>>

\* the chat call of the i-th outstanding request settles with response
ChatSettled(i, response) ==
    /\ i \in 1..Len(inflight)
    /\ inflight' = SubSeq(inflight, 1, i - 1) \o SubSeq(inflight, i + 1, Len(inflight))
    /\ LET arg     == extractResults(response)
           applied == resultsProcessor(diagnosticsTree, published, docText, response.body)
           outcome == IF arg # "array" THEN arg
                      ELSE IF applied.threw THEN "threw" ELSE "applied"
       IN  /\ IF arg = "array"
                THEN /\ diagnosticsTree' = applied.tree
                     /\ published' = applied.published
                ELSE UNCHANGED <<diagnosticsTree, published>>
           /\ IF finallyRuns(outcome)
                THEN documentAnalysisStates' = [done |-> TRUE]
                ELSE UNCHANGED documentAnalysisStates
           /\ Ended("response", outcome)
    /\ prev' = IF inflight[i].text = docText THEN "current" ELSE "stale"
    /\ UNCHANGED <<docText, model, pending, syntaxVars, children, op, found, before>>

\* the setting aiInspection.model is set or cleared
ConfigurationChanged ==
    /\ model' = ~model
    /\ UNCHANGED <<docText, documentAnalysisStates, diagnosticsTree, published, inflight,
                   pending, last, syntaxVars, treeVars>>

InitExt ==
    /\ Activated
    /\ docText \in Texts
    /\ NoDocumentState
    /\ NewNode

NextExt ==
    \/ \E text \in Texts, tree \in DocTrees, range \in EditChangeRanges :
           ChangeTextDocument(text, tree, range)
    \/ ChangeWithoutContent
    \/ \E i \in 1..MaxPending : EncodeResolved(i)
    \/ \E names \in SUBSET FunctionNames : RunAnalysis(names)
    \/ \E i \in 1..MaxInflight, response \in Responses : ChatSettled(i, response)
    \/ ConfigurationChanged

SpecExt == InitExt /\ [][NextExt]_vars

(***************************************************************************)
(* SpecStale: the extension from a state in which the command has sent a   *)
(* request for the whole document, with the answer the service will give   *)
(* fixed in op.  The document is edited while the request is outstanding,  *)
(* and the response arrives.  The diagnostics stored at the start are none *)
(* or those of an earlier response with at most one finding.               *)
(***************************************************************************)
EarlierBatches == {b \in SeqsUpTo(Reports, 1) : \A k \in 1..Len(b) : ~ThrowsOnLine(b[k])}

EarlierTrees ==
    {NullTree} \cup {resultsProcessor(NullTree, <<>>, t, b).tree : t \in Texts, b \in EarlierBatches}

InitStale ==
    /\ docText \in Texts
    /\ syntaxTree = TreeF
    /\ rangeTree = createRangeBTreeNode(TreeF, 1)
    /\ enclosing = [called |-> FALSE]
    /\ diagnosticsTree \in EarlierTrees
    /\ published = IF diagnosticsTree = NullTree THEN <<>>
                   ELSE forEachChildren(diagnosticsTree.children)
    /\ documentAnalysisStates = [done |-> FALSE]
    /\ inflight = <<[sourceCode |-> performCodeCheck(<<[startLine |-> 0,
                                                        text |-> [document |-> TRUE]]>>),
                     text |-> docText]>>
    /\ model = TRUE
    /\ pending = <<>>
    /\ last = [handler |-> "command", outcome |-> "sent"]
    /\ children = EmptyMap
    /\ found = <<>>
    /\ before = EmptyMap
    /\ prev = "none"
    /\ op \in {[name |-> "chat", batch |-> b] : b \in Batches}

\* the edits replace the whole text
NextStale ==
    \/ \E text \in Texts, tree \in DocTrees :
           ChangeTextDocument(text, tree, NumberRange(0, 4))
    \/ \E i \in 1..MaxInflight : ChatSettled(i, Fenced(op.batch))

SpecStale == InitStale /\ [][NextStale]_vars

(***************************************************************************)
(* Properties of the enclosing-block lookup (SpecSyntax)                   *)
(***************************************************************************)
RECURSIVE IsAncestor(_, _, _)
IsAncestor(t, a, n) ==
    /\ t[n].parent # 0
    /\ (t[n].parent = a \/ IsAncestor(t, a, t[n].parent))

\* the span of node n contains the byte range q, the span read as the
\* half-open [startIndex, endIndex)
SpanContains(t, n, q) ==
    /\ t[n].startIndex <= q.start
    /\ q.end <= t[n].endIndex
    /\ q.start < t[n].endIndex

\* the same with the span read as the closed [startIndex, endIndex]
SpanContainsClosed(t, n, q) ==
    /\ t[n].startIndex <= q.start
    /\ q.end <= t[n].endIndex

BlocksContaining(t, q) ==
    {n \in 1..Len(t) : t[n].type = "block" /\ SpanContains(t, n, q)}

BlocksContainingClosed(t, q) ==
    {n \in 1..Len(t) : t[n].type = "block" /\ SpanContainsClosed(t, n, q)}

\* the blocks of B that have no other block of B below them
Smallest(t, B) == {b \in B : \A o \in B : ~IsAncestor(t, b, o)}

\* C10: when some block node contains the query, findEnclosingBlock returns
\* a smallest such block (its parent when grabParentBlock is set), and so
\* returns undefined only when no block contains the query.  A result is
\* accepted when it is smallest under either reading of the spans, and the
\* statement is made for trees without empty nodes whose blocks have child
\* nodes, as the trees of well-formed source text are.
C10_SmallestEnclosingBlock ==
    (/\ enclosing.called
     /\ \A n \in 1..Len(syntaxTree) : syntaxTree[n].startIndex < syntaxTree[n].endIndex
     /\ BlocksContaining(syntaxTree, enclosing.range) # {}
     /\ \A b \in BlocksContainingClosed(syntaxTree, enclosing.range) :
            childCount(syntaxTree, b) > 0)
        => \E b \in Smallest(syntaxTree, BlocksContaining(syntaxTree, enclosing.range))
                       \cup Smallest(syntaxTree, BlocksContainingClosed(syntaxTree, enclosing.range)) :
               enclosing.result =
                   IF enclosing.grabParentBlock THEN syntaxTree[b].parent ELSE b

(***************************************************************************)
(* Properties of one node (SpecTree)                                       *)
(***************************************************************************)
WellFormed(r) == Comparator(r, r.start, r.end) <= 0

\* two intervals that have no point in common
Disjoint(a, b) == Comparator(a, a.end, b.start) < 0 \/ Comparator(a, b.end, a.start) < 0

\* the sibling invariant: well-formed, pairwise non-overlapping keys
SiblingInvariant(ch) ==
    /\ \A k \in MapKeys(ch) : WellFormed(k)
    /\ \A a, b \in MapKeys(ch) : a # b => Disjoint(a, b)

\* the keys the match predicate of find accepts
Matching(ch, q) == {k \in MapKeys(ch) : intersects(k, q) \/ inside(k, q)}

SeqToSet(s) == {s[i] : i \in 1..Len(s)}

\* C1: on a node with well-formed, pairwise non-overlapping children and a
\* well-formed query, find returns exactly the children that intersect the
\* query or are inside it, each once.
C1_FindExact ==
    (op.name = "find" /\ SiblingInvariant(children) /\ WellFormed(op.range))
        => /\ SeqToSet(found) = {children[k] : k \in Matching(children, op.range)}
           /\ Len(found) = Cardinality(Matching(children, op.range))

\* C1 witness: siblings [0,0],[1,1],[2,2] queried with [1,1] give exactly [1,1]
C1_Witness ==
    /\ op = [name |-> "find", range |-> NumberRange(1, 1)]
    /\ MapKeys(children) = {NumberRange(0, 0), NumberRange(1, 1), NumberRange(2, 2)}
    /\ found = <<children[NumberRange(1, 1)]>>

\* the children replaceIntersecting(q, v) is said to leave
Replaced(ch, q, v) ==
    [k \in (MapKeys(ch) \ Matching(ch, q)) \cup {q} |->
        IF k = q THEN RangeBinTree(q, v) ELSE ch[k]]

\* C3 as stated: on a node that satisfies the sibling invariant, for any
\* query q (start > end included) replaceIntersecting(q, v) leaves the old
\* children that neither intersect q nor lie inside it, plus the child (q, v).
C3_ReplaceAnyQuery ==
    (op.name = "replaceIntersecting" /\ SiblingInvariant(before))
        => children = Replaced(before, op.range, op.value)

\* C3 amended: the same for a well-formed query q (start <= end).
C3_ReplaceWellFormedQuery ==
    (op.name = "replaceIntersecting" /\ SiblingInvariant(before) /\ WellFormed(op.range))
        => children = Replaced(before, op.range, op.value)

\* C3 witness: the entry [0,1] overlapped by the new [1,2] is gone, and an
\* entry clear of it is kept
C3_Witness ==
    /\ op.name = "replaceIntersecting" /\ op.range = NumberRange(1, 2)
    /\ MapKeys(before) = {NumberRange(0, 1)}
    /\ MapKeys(children) = {NumberRange(1, 2)}

\* C4: find(q) right after removeIntersecting(q) on the same node returns
\* an empty sequence, whatever the children and the query are.
C4_RemoveThenFindEmpty ==
    (op.name = "find" /\ prev = "removeIntersecting") => found = <<>>

\* C4 witness: the find follows a removeIntersecting on a node whose
\* children overlap, where a child matching the query is still stored
C4_Witness ==
    /\ op.name = "find" /\ prev = "removeIntersecting"
    /\ ~SiblingInvariant(children)
    /\ Matching(children, op.range) # {}

\* C5: a second replaceIntersecting(q, v) right after the first leaves the
\* child map as the first left it, with exactly one child whose key
\* compares equal to q.
C5_ReplaceIdempotent ==
    (op.name = "replaceIntersecting" /\ prev = "replaceIntersecting")
        => /\ children = before
           /\ Cardinality({k \in MapKeys(children) : compare(k, op.range) = 0}) = 1

\* C5 witness: the second call on a node that holds other children too
C5_Witness ==
    /\ op.name = "replaceIntersecting" /\ prev = "replaceIntersecting"
    /\ Cardinality(MapKeys(children)) = MaxChildren
    /\ ~WellFormed(op.range)

(***************************************************************************)
(* Properties of the analysis cycle (SpecExt)                              *)
(***************************************************************************)
\* two position intervals that share more than a boundary position
Overlapping(a, b) ==
    /\ positionComparator(a.start, b.end) < 0
    /\ positionComparator(b.start, a.end) < 0

StoredRanges == IF diagnosticsTree = NullTree THEN {} ELSE MapKeys(diagnosticsTree.children)

\* C2: whatever responses have been applied, no two diagnostics stored in
\* the diagnostics tree have overlapping position intervals, findings of one
\* batch that overlap each other included.
C2_NoOverlappingDiagnostics ==
    \A a, b \in StoredRanges : a # b => ~Overlapping(a, b)

\* C6: at most one findings request is outstanding for the document, and
\* while one is outstanding the done flag is false.
C6_OneRequestOutstanding ==
    /\ Len(inflight) <= 1
    /\ inflight # <<>> => documentAnalysisStates = [done |-> FALSE]

\* C6 witness: a check was attempted while a request was outstanding and
\* sent nothing
C6_Witness ==
    /\ Len(inflight) = 1
    /\ last.outcome = "busy"

\* C7: a response without a fenced block, or whose fenced content is not
\* JSON, leaves the diagnostics tree and the published diagnostics as they
\* were, shows no error, and sets the done flag.
C7_MalformedResponse ==
    [][(last'.handler = "response" /\ last'.outcome \in {"undefined", "parseError"})
          => /\ diagnosticsTree' = diagnosticsTree
             /\ published' = published
             /\ documentAnalysisStates' = [done |-> TRUE]]_vars

\* C7 witness: the fenced content did not parse, diagnostics of an earlier
\* cycle are stored, and the flag is set
C7_Witness ==
    /\ last = [handler |-> "response", outcome |-> "parseError"]
    /\ StoredRanges # {}
    /\ published # <<>>
    /\ documentAnalysisStates = [done |-> TRUE]

\* a step in which a check found the flag set and started an analysis cycle
CycleStarts ==
    /\ documentAnalysisStates' = [done |-> FALSE]
    /\ documentAnalysisStates # [done |-> FALSE]

\* C8: with no model configured, an analysis cycle shows the error
\* notification and sends no request, and the diagnostics tree and the
\* published diagnostics stay as they are.
C8_NoModelNoRequest ==
    [][(CycleStarts /\ ~model)
          => /\ last'.outcome = "noModel"
             /\ inflight' = <<>>
             /\ diagnosticsTree' = diagnosticsTree
             /\ published' = published]_vars

\* C8 witness: the error was shown in a cycle that found diagnostics stored
C8_Witness ==
    /\ last.outcome = "noModel"
    /\ ~model
    /\ inflight = <<>>
    /\ StoredRanges # {}

\* the findings of a batch whose snippet occurs on their reported line
RECURSIVE KeepResolvable(_, _)
KeepResolvable(text, results) ==
    IF results = <<>> THEN <<>>
    ELSE LET r == Head(results)
             isFound == r.line >= 1 /\ indexOf(getLineText(text, r.line - 1), r.snippet) >= 0
         IN  (IF isFound THEN <<r>> ELSE <<>>) \o KeepResolvable(text, Tail(results))

\* C9: a response batch has the effect of the same batch without the
\* findings whose snippet does not occur on their reported line.
C9_UnresolvableFindingDropped ==
    [][\A i \in 1..Len(inflight), b \in Batches :
          ChatSettled(i, Fenced(b)) => ChatSettled(i, Fenced(KeepResolvable(docText, b)))]_vars

(***************************************************************************)
(* Properties of addChild (SpecNode)                                       *)
(***************************************************************************)
\* the keys of a map that compare equal to r
EqualKeys(ch, r) == {k \in MapKeys(ch) : compare(k, r) = 0}

\* C11: after addChild(interval, value) the node has exactly one child whose
\* key compares equal to interval, that child carries the new value and has
\* no children, and every child with another key is as it was.
C11_AddChildLastWriteWins ==
    op.name = "addChild" =>
        /\ Cardinality(EqualKeys(children, op.range)) = 1
        /\ \A k \in EqualKeys(children, op.range) :
               children[k] = RangeBinTree(op.range, op.value)
        /\ MapKeys(children) \ EqualKeys(children, op.range)
               = MapKeys(before) \ EqualKeys(before, op.range)
        /\ \A k \in MapKeys(before) \ EqualKeys(before, op.range) : children[k] = before[k]

\* C11 witness: the entry replaced had another value and a child, and the
\* node has another child beside it
C11_Witness ==
    /\ op.name = "addChild"
    /\ \E k \in EqualKeys(before, op.range) :
           /\ before[k].node # op.value
           /\ before[k].children # EmptyMap
    /\ Cardinality(MapKeys(before)) >= 2

(***************************************************************************)
(* Properties of the syntax adapter (SpecSyntax)                           *)
(***************************************************************************)
\* the nodes of a range tree
RECURSIVE Subtrees(_)
Subtrees(tree) ==
    {tree} \cup UNION {Subtrees(tree.children[k]) : k \in MapKeys(tree.children)}

\* two intervals that none of the predicates of the interval type relates
NonOverlapping(a, b) ==
    /\ ~intersects(a, b) /\ ~intersects(b, a)
    /\ ~inside(a, b) /\ ~inside(b, a)

\* C12: in the tree the adapter builds for a syntax tree whose sibling nodes
\* occupy disjoint, non-empty half-open byte spans, the keys of the children
\* of every node are pairwise non-overlapping under the closed predicates
\* contains, intersects and inside.
C12_AdapterSiblingInvariant ==
    (/\ rangeTree # NullTree
     /\ \A n \in 1..Len(syntaxTree) : syntaxTree[n].startIndex < syntaxTree[n].endIndex)
        => \A node \in Subtrees(rangeTree) :
               \A a, b \in MapKeys(node.children) : a # b => NonOverlapping(a, b)

\* C13: the tree the adapter builds has as many nodes as the syntax tree,
\* and every syntax node but the root is the value of the child stored
\* under [startIndex, endIndex] in the node built for its parent.
C13_OneNodePerSyntaxNode ==
    rangeTree # NullTree =>
        /\ Cardinality(Subtrees(rangeTree)) = Len(syntaxTree)
        /\ \A n \in 2..Len(syntaxTree) :
               \E parent \in Subtrees(rangeTree) :
                   LET key == NumberRange(syntaxTree[n].startIndex, syntaxTree[n].endIndex)
                   IN  /\ parent.node = syntaxTree[n].parent
                       /\ key \in MapKeys(parent.children)
                       /\ parent.children[key].node = n

(***************************************************************************)
(* Properties of the runAnalysis command (SpecExt)                         *)
(***************************************************************************)
\* a check made now sends a request: the flag is done and a model is set
CheckSends ==
    /\ documentAnalysisStates \in {NullAnalysis, [done |-> TRUE]}
    /\ model

\* the top-level function declarations of the document named in names
NamedFunctions(names) ==
    {n \in SeqToSet(syntaxTree[1].children) :
        syntaxTree[n].type = "function_declaration" /\ syntaxTree[n].name \in names}

\* the requests a step has added to the outstanding ones
Added == SubSeq(inflight', Len(inflight) + 1, Len(inflight'))

\* C14 as stated: with an empty name list the command sends one request
\* with the whole document text, and with a non-empty list it sends one
\* request for each top-level function declaration named in the list.
C14_OneRequestPerFunction ==
    [][\A names \in SUBSET FunctionNames :
          (RunAnalysis(names) /\ rangeTree # NullTree /\ CheckSends)
              => IF names = {}
                    THEN /\ Len(Added) = 1
                         /\ Added[1].sourceCode =
                                <<[startLineNumber |-> 1, text |-> [document |-> TRUE]]>>
                    ELSE /\ Len(Added) = Cardinality(NamedFunctions(names))
                         /\ \A n \in NamedFunctions(names) :
                                \E i \in 1..Len(Added) :
                                    Added[i].sourceCode =
                                        <<[startLineNumber |-> syntaxTree[n].startRow + 1,
                                           text |-> [node |-> n]]>>]_vars

\* C14: when the flag is done and a model is set, the command sends exactly
\* one request: with an empty name list the whole document text, with a
\* non-empty list the texts of the top-level function declarations named in
\* the list, in the order of their spans, each numbered from its own first
\* line (an empty text when none is named).
C14_OneCombinedRequest ==
    [][\A names \in SUBSET FunctionNames :
          (RunAnalysis(names) /\ rangeTree # NullTree /\ CheckSends)
              => /\ Len(Added) = 1
                 /\ LET sent == Added[1].sourceCode
                    IN  IF names = {}
                           THEN sent = <<[startLineNumber |-> 1, text |-> [document |-> TRUE]]>>
                           ELSE /\ Len(sent) = Cardinality(NamedFunctions(names))
                                /\ \A n \in NamedFunctions(names) :
                                       \E i \in 1..Len(sent) :
                                           sent[i] = [startLineNumber |-> syntaxTree[n].startRow + 1,
                                                      text |-> [node |-> n]]
                                /\ \A i, j \in 1..Len(sent) :
                                       i < j => syntaxTree[sent[i].text.node].startIndex
                                                   < syntaxTree[sent[j].text.node].startIndex]_vars

\* C14 witness: the command has sent one request with the texts of two
\* named functions
C14_Witness ==
    /\ last = [handler |-> "command", outcome |-> "sent"]
    /\ Len(inflight) = 1
    /\ Len(inflight[1].sourceCode) = 2

(***************************************************************************)
(* Properties of the interval predicates (SpecRange)                       *)
(***************************************************************************)
\* outer.start < inner.start and inner.end < outer.end
StrictlyContains(outer, inner) ==
    /\ Comparator(outer, outer.start, inner.start) < 0
    /\ Comparator(outer, inner.end, outer.end) < 0

\* intersects was applied to two well-formed intervals
IntersectsApplied ==
    /\ op.name = "intersects"
    /\ WellFormed(op.range)
    /\ WellFormed(op.other)

\* C15 as stated: for well-formed A and B, A.intersects(B) is false while
\* B.intersects(A) is true exactly when B strictly contains A, and in every
\* other case the two results are equal.
C15_AsymmetricOnlyWhenContained ==
    IntersectsApplied =>
        /\ (~found[1] /\ found[2]) <=> StrictlyContains(op.other, op.range)
        /\ ~StrictlyContains(op.other, op.range) => found[1] = found[2]

\* C15: for well-formed A and B, A.intersects(B) is false while
\* B.intersects(A) is true exactly when B strictly contains A, the results
\* are the other way round exactly when A strictly contains B, and in every
\* other case they are equal.
C15_AsymmetricWhenOneContainsOther ==
    IntersectsApplied =>
        /\ (~found[1] /\ found[2]) <=> StrictlyContains(op.other, op.range)
        /\ (found[1] /\ ~found[2]) <=> StrictlyContains(op.range, op.other)
        /\ (~StrictlyContains(op.other, op.range) /\ ~StrictlyContains(op.range, op.other))
               => found[1] = found[2]

\* C15 witness: B strictly contains A, over positions
C15_Witness ==
    /\ IntersectsApplied
    /\ op.range.comparator = "positionComparator"
    /\ StrictlyContains(op.other, op.range)
    /\ found = <<FALSE, TRUE>>

\* the match test was applied to two well-formed intervals
MatchApplied ==
    /\ op.name = "match"
    /\ WellFormed(op.range)
    /\ WellFormed(op.other)

\* C16: for a well-formed child key c and query q, the test of find accepts
\* c exactly when c and q have a point in common; a child that strictly
\* contains the query is accepted by intersects, and a child strictly
\* inside the query by inside.
C16_MatchIffSharedPoint ==
    MatchApplied =>
        /\ found[1] <=> ~Disjoint(op.range, op.other)
        /\ found[1] <=> (found[2] \/ found[3])
        /\ StrictlyContains(op.range, op.other) => found[2]
        /\ StrictlyContains(op.other, op.range) => found[3]

\* C16 witness: a child strictly inside the query, which only inside accepts
C16_Witness ==
    /\ MatchApplied
    /\ StrictlyContains(op.other, op.range)
    /\ found = <<TRUE, FALSE, TRUE>>

(***************************************************************************)
(* Properties of the interleaving of edits, commands and responses         *)
(* (SpecExt)                                                               *)
(***************************************************************************)
\* C17: while a request is outstanding, a step of the change handler or of
\* the command leaves the diagnostics tree and the published diagnostics as
\* they are; the tree and the published diagnostics change only in a step
\* in which the response to an outstanding request is processed.
C17_TreeChangesOnlyInContinuation ==
    [][/\ (inflight # <<>> /\ last'.handler \in {"change", "command", "encode"})
              => UNCHANGED <<diagnosticsTree, published>>
       /\ (diagnosticsTree' # diagnosticsTree \/ published' # published)
              => /\ last'.handler = "response"
                 /\ inflight # <<>>
                 /\ Len(inflight') = Len(inflight) - 1]_vars

\* C17 witness: the document was edited while a request was outstanding and
\* diagnostics of an earlier response were stored and published
C17_Witness ==
    /\ inflight # <<>>
    /\ last = [handler |-> "change", outcome |-> "busy"]
    /\ StoredRanges # {}
    /\ published # <<>>

\* C18: a request is added only by a step of the change handler or of the
\* command that finds the flag done and no request outstanding, and it adds
\* one; a change that arrives while a request is outstanding adds none, and
\* the step that processes a response adds none either.
C18_NoRequestQueued ==
    [][/\ Len(inflight') > Len(inflight)
              => /\ inflight = <<>>
                 /\ Len(inflight') = 1
                 /\ documentAnalysisStates \in {NullAnalysis, [done |-> TRUE]}
                 /\ last' \in {[handler |-> "change", outcome |-> "sent"],
                               [handler |-> "command", outcome |-> "sent"]}
       /\ (inflight # <<>> /\ last'.handler = "change") => inflight' = inflight
       /\ (inflight # <<>> /\ last'.handler = "response" /\ last' # last)
              => inflight' = <<>>]_vars

\* C18 witness: an edit that changed the text arrived while the request was
\* outstanding; the request is still the only one and nothing else waits
C18_Witness ==
    /\ Len(inflight) = 1
    /\ inflight[1].text # docText
    /\ last = [handler |-> "change", outcome |-> "busy"]
    /\ pending = <<>>

\* the ranges the findings of a batch resolve to on a text
ResolvedOn(text, results) ==
    {resolveRange(text, results[k]) : k \in 1..Len(results)} \ {NoRange}

RECURSIVE Descent(_, _, _)
Descent(t, enclosings, range) ==
    IF enclosings = <<>> THEN <<>>
    ELSE LET treeNode == enclosings[1]
         IN  IF childCount(t, treeNode.node) = 0 \/ ~inside(range, treeNode.range)
                 THEN <<>>
                 ELSE <<treeNode.node>> \o Descent(t, find(treeNode.children, range), range)

\* the blocks on the descent of the last lookup, in the order reached
BlocksReached ==
    SelectSeq(Descent(syntaxTree, find(rangeTree.children, enclosing.range), enclosing.range),
              LAMBDA n : syntaxTree[n].type = "block")

\* what the lookup returns for block b
Taken(b) == IF enclosing.grabParentBlock THEN syntaxTree[b].parent ELSE b

\* C20 as stated: the lookup returns the first block it reaches on its
\* descent (its parent when grabParentBlock is set).
C20_FirstBlockReached ==
    (enclosing.called /\ BlocksReached # <<>>)
        => enclosing.result = Taken(BlocksReached[1])

\* C20: the lookup keeps descending after it has reached a block and
\* returns the last block reached on its descent (its parent when
\* grabParentBlock is set); it returns undefined when it reaches none.
C20_LastBlockReached ==
    enclosing.called =>
        IF BlocksReached = <<>>
            THEN enclosing.result = Undefined
            ELSE enclosing.result = Taken(BlocksReached[Len(BlocksReached)])

\* C20 witness: two nested blocks were reached and the inner one returned
C20_Witness ==
    /\ enclosing.called
    /\ ~enclosing.grabParentBlock
    /\ Len(BlocksReached) >= 2
    /\ enclosing.result = BlocksReached[Len(BlocksReached)]
    /\ enclosing.result # BlocksReached[1]

(***************************************************************************)
(* Properties of the choice among several matches (SpecSyntax)             *)
(***************************************************************************)
\* the range-tree nodes on which the lookup calls find: the root, then at
\* each level the first node find returned, as long as it has children and
\* contains the query
RECURSIVE Levels(_, _, _)
Levels(t, node, range) ==
    LET enclosings == find(node.children, range)
    IN  IF enclosings = <<>> THEN <<node>>
        ELSE IF childCount(t, enclosings[1].node) = 0 \/ ~inside(range, enclosings[1].range)
            THEN <<node>>
            ELSE <<node>> \o Levels(t, enclosings[1], range)

\* the levels of the last lookup
LevelsVisited == Levels(syntaxTree, rangeTree, enclosing.range)

\* the keys of the nodes find returns on a level
FoundKeys(level) ==
    {find(level.children, enclosing.range)[i].range :
        i \in 1..Len(find(level.children, enclosing.range))}

MaxKey(S) == CHOOSE k \in S : \A o \in S : compare(k, o) >= 0

\* the keys of a level at or below the query in key order, and those above
KeysNotAbove(level) == {k \in MapKeys(level.children) : compare(k, enclosing.range) <= 0}

KeysAbove(level) == {k \in MapKeys(level.children) : compare(k, enclosing.range) > 0}

\* C21 as stated: on every level of the descent on which find returns more
\* than one child, the first one, with which the lookup continues, has the
\* lowest key of those returned.
C21_FirstIsLowestMatch ==
    enclosing.called =>
        \A l \in 1..Len(LevelsVisited) :
            Cardinality(FoundKeys(LevelsVisited[l])) > 1
                => find(LevelsVisited[l].children, enclosing.range)[1].range
                       = MinKey(FoundKeys(LevelsVisited[l]))

\* C21: on every level of the descent on which find returns a child, the
\* first one is the child nearest to the query in key order: the child with
\* the greatest key not above the query when find returns it, and otherwise
\* the child with the lowest key above the query.
C21_FirstIsNearestMatch ==
    enclosing.called =>
        \A l \in 1..Len(LevelsVisited) :
            LET level == LevelsVisited[l]
                first == find(level.children, enclosing.range)[1].range
                below == FoundKeys(level) \cap KeysNotAbove(level)
            IN  FoundKeys(level) # {}
                    => IF below # {}
                          THEN first = MaxKey(KeysNotAbove(level))
                          ELSE first = MinKey(KeysAbove(level))

\* C21 witness: on the top level find returned two children at or below
\* the query, and the lookup went on with the higher one
C21_Witness ==
    /\ enclosing.called
    /\ Len(LevelsVisited) >= 2
    /\ Cardinality(FoundKeys(rangeTree) \cap KeysNotAbove(rangeTree)) >= 2
    /\ LevelsVisited[2].range = MaxKey(KeysNotAbove(rangeTree))
    /\ LevelsVisited[2].range # MinKey(FoundKeys(rangeTree))

(***************************************************************************)
(* Properties of the published diagnostics (SpecExt)                       *)
(***************************************************************************)
\* the key under which checkCode stores a diagnostic
KeyOf(diag) == VSCodeRange(diag.range[1], diag.range[2])

\* the intervals to which a finding of a response can resolve in the text
\* the document has now
ResolvableNow ==
    {resolveRange(docText, r) : r \in {x \in Reports : ~ThrowsOnLine(x)}} \ {NoRange}

\* a response whose content parsed has just been handled
ResponseParsed ==
    /\ last.handler = "response"
    /\ last.outcome \in {"applied", "threw"}

\* C22: after a cycle whose response parsed, the published diagnostics are
\* the values of all direct children of the diagnostics tree, each once, in
\* ascending key order, and the value of the stub root is not among them.
C22_PublishedAreAllChildren ==
    ResponseParsed =>
        /\ diagnosticsTree # NullTree
        /\ Len(published) = Cardinality(StoredRanges)
        /\ \A k \in StoredRanges :
               \E i \in 1..Len(published) : published[i] = diagnosticsTree.children[k].node
        /\ \A i, j \in 1..Len(published) :
               i < j => compare(KeyOf(published[i]), KeyOf(published[j])) < 0
        /\ \A i \in 1..Len(published) : published[i] # diagnosticsTree.node

\* C22 witness: a response was applied, and a published diagnostic lies on
\* an interval to which no finding resolves in the present text, next to
\* another one: it was kept from an earlier cycle
C22_Witness ==
    /\ last = [handler |-> "response", outcome |-> "applied"]
    /\ Len(published) >= 2
    /\ \E i \in 1..Len(published) : KeyOf(published[i]) \notin ResolvableNow
    /\ \E i \in 1..Len(published) : KeyOf(published[i]) \in ResolvableNow

(***************************************************************************)
(* Properties of a node whose children break the invariant (SpecTree)      *)
(***************************************************************************)
\* a key strictly between k and the query in key order, on the side of k
Between(n, k, q) ==
    IF compare(k, q) <= 0
        THEN compare(k, n) < 0 /\ compare(n, q) <= 0
        ELSE compare(q, n) < 0 /\ compare(n, k) < 0

\* the matching keys the two scans cannot reach: a key the match predicate
\* rejects lies between them and the query
BehindNonMatching(ch, q) ==
    {k \in Matching(ch, q) :
        \E n \in MapKeys(ch) \ Matching(ch, q) : Between(n, k, q)}

\* the keys of the children find returned
FoundRanges == {found[i].range : i \in 1..Len(found)}

\* C23: on a node whose children overlap or have start > end, find returns
\* children of the node, each once, all of which intersect the query or lie
\* inside it, and removeIntersecting removes only such children and leaves
\* the others as they were; a matching child is missed by either exactly
\* when a non-matching child lies between it and the query in key order.
C23_DegradesToMissedMatches ==
    /\ (op.name = "find" /\ ~SiblingInvariant(children))
           => /\ \A i \in 1..Len(found) : found[i] = children[found[i].range]
              /\ Len(found) = Cardinality(FoundRanges)
              /\ FoundRanges \subseteq Matching(children, op.range)
              /\ Matching(children, op.range) \ FoundRanges
                     = BehindNonMatching(children, op.range)
    /\ (op.name = "removeIntersecting" /\ ~SiblingInvariant(before))
           => /\ MapKeys(children) \subseteq MapKeys(before)
              /\ \A k \in MapKeys(children) : children[k] = before[k]
              /\ MapKeys(before) \ MapKeys(children) \subseteq Matching(before, op.range)
              /\ Matching(before, op.range) \cap MapKeys(children)
                     = BehindNonMatching(before, op.range)

\* C23 witness: among overlapping children find returned a child and missed
\* a matching one that lies behind a non-matching one
C23_Witness ==
    /\ op.name = "find"
    /\ ~SiblingInvariant(children)
    /\ found # <<>>
    /\ Matching(children, op.range) \ FoundRanges # {}

\* C23 witness for removeIntersecting: a child with start > end was
\* removed, and a matching child is still stored
C23_WitnessRemove ==
    /\ op.name = "removeIntersecting"
    /\ \E k \in MapKeys(before) \ MapKeys(children) : ~WellFormed(k)
    /\ Matching(before, op.range) \cap MapKeys(children) # {}

(***************************************************************************)
(* Properties of the diagnostics a response leaves alone (SpecStale)       *)
(***************************************************************************)
\* the stored diagnostics whose interval has no position in common with
\* the interval of any finding of the batch, resolved on the present text
BatchRanges == ResolvedOn(docText, KeepResolvable(docText, op.batch))

ClearOfBatch == {k \in StoredRanges : \A r \in BatchRanges : Disjoint(k, r)}

\* C24: the continuation of a response leaves every stored diagnostic whose
\* interval has no position in common with the interval of any resolved
\* finding of the batch in the tree, under its key and unaltered, and in
\* the published list.
C24_ClearDiagnosticsKept ==
    [][last'.handler = "response"
          => \A k \in ClearOfBatch :
                 /\ k \in StoredRanges'
                 /\ diagnosticsTree'.children[k] = diagnosticsTree.children[k]
                 /\ \E j \in 1..Len(published') :
                        published'[j] = diagnosticsTree.children[k].node]_vars

\* C24 witness: a batch with a resolved finding was applied, and a
\* diagnostic of an earlier cycle that is clear of it is stored and
\* published next to the diagnostic of the finding
C24_Witness ==
    /\ last = [handler |-> "response", outcome |-> "applied"]
    /\ BatchRanges # {}
    /\ BatchRanges \subseteq StoredRanges
    /\ ClearOfBatch # {}
    /\ \A k \in ClearOfBatch : \E j \in 1..Len(published) : KeyOf(published[j]) = k

====
